---- MODULE Spec2Model ----
(***************************************************************************)
(* The OTP entry component of src/App.tsx as a state machine.              *)
(*                                                                         *)
(* A JavaScript string is a sequence of one-character strings, so that     *)
(* sanitize, join and the truthiness of a slot are computed, not assumed.  *)
(* One action is one event of the UI thread: the handler, the render that  *)
(* commits its state updates, and the auto-submit effect of that render.   *)
(***************************************************************************)
EXTENDS Integers, Sequences, FiniteSets, TLC

\* ------------------------------------------------------------------ bounds
\* Longest raw text a text-change event carries.
MaxRawLen == 2
\* How far beyond [0, OTP_LENGTH] a raw selection endpoint may lie.
RawOver == 1

\* --------------------------------------------------------------- constants
OTP_LENGTH == 6

\* The characters /\D/ does not match.
Digit == {"0", "1", "2", "3", "4", "5", "6", "7", "8", "9"}
\* Characters the keyboard, a paste or an IME delivers in this model.
InputChars == {"1", "2", "x"}
RawTexts == UNION {[1..n -> InputChars] : n \in 0..MaxRawLen}
RawPositions == (0 - RawOver)..(OTP_LENGTH + RawOver)
\* rawEnd - rawStart of a selection-change event: a reversed pair, a caret,
\* one selected character.
RawWidths == {-1, 0, 1}
Keys == {"Backspace", "Enter"}
Index == 0..(OTP_LENGTH - 1)

VARIABLES
    digits,          \* useState digits: slot index -> string
    selection,       \* useState selection: [start, end]
    loading,         \* useState loading
    focused,         \* the hidden input holds focus (focus() / Keyboard.dismiss())
    pending,         \* handleSubmit calls suspended at the await, each with the
                     \* `value` its closure captured, in timer order
    refocusPending,  \* the 50 ms callback of the finally block is scheduled
    alertOut         \* the alert() shown by the latest step, NoAlert if none

vars == <<digits, selection, loading, focused, pending, refocusPending, alertOut>>

Min(a, b) == IF a < b THEN a ELSE b
Max(a, b) == IF a > b THEN a ELSE b

EmptyDigits == [i \in Index |-> <<>>]
Sel(s, e) == [start |-> s, end |-> e]
NoAlert == [kind |-> "none", code |-> <<>>]

\* digits.join("")
RECURSIVE joinFrom(_, _)
joinFrom(d, i) == IF i >= OTP_LENGTH THEN <<>> ELSE d[i] \o joinFrom(d, i + 1)
value(d) == joinFrom(d, 0)

\* value.length === OTP_LENGTH && !digits.includes("")
isComplete(d) == ~(\E i \in Index : d[i] = <<>>) /\ Len(value(d)) = OTP_LENGTH

\* Math.max(0, Math.min(OTP_LENGTH, x))
clamp(x) == Max(0, Min(OTP_LENGTH, x))

IsDigit(c) == c \in Digit
\* sanitize keeping the last digit: raw.replace(/\D/g, "").slice(-1)
sanitizeLastDigit(raw) ==
    LET kept == SelectSeq(raw, IsDigit)
    IN  SubSeq(kept, Max(1, Len(kept)), Len(kept))
\* sanitize without the replace: raw.slice(0, 1)
sanitizeNoStrip(raw) == SubSeq(raw, 1, Min(1, Len(raw)))
\* raw.replace(/\D/g, "").slice(0, 1)
sanitize(raw) ==
    LET kept == SelectSeq(raw, IsDigit)
    IN  SubSeq(kept, 1, Min(1, Len(kept)))

\* An insertion that shifts: updated.splice(i, 0, c), cut back to OTP_LENGTH.
setAtShifting(d, i, c) ==
    [j \in Index |-> IF j < i THEN d[j] ELSE IF j = i THEN c ELSE d[j - 1]]
\* updated = [...digits]; updated[i] = c
setAt(d, i, c) == [d EXCEPT ![i] = c]

\* A deletion that compacts: updated.splice(i, 1), padded with "".
clearAtShifting(d, i) ==
    [j \in Index |-> IF j < i THEN d[j]
                     ELSE IF j + 1 \in Index THEN d[j + 1] ELSE <<>>]
\* updated = [...digits]; updated[i] = ""
clearAt(d, i) == [d EXCEPT ![i] = <<>>]

\* focusInput without the selectOne branch: always a collapsed caret.
focusSelectionCollapsed(d, pos, selectOne) == Sel(clamp(pos), clamp(pos))
\* The selection focusInput(pos, selectOne) stores; digits[OTP_LENGTH] is
\* undefined, which is falsy.
focusSelection(d, pos, selectOne) ==
    LET clamped == clamp(pos)
    IN  IF selectOne /\ clamped \in Index /\ d[clamped] # <<>>
        THEN Sel(clamped, clamped + 1)
        ELSE Sel(clamped, clamped)

\* The effect reading the values of the render before the update.
effectSubmitsStale(d, l) == ~loading /\ isComplete(digits)
\* The effect of useEffect(..., [isComplete, loading]) after a render with
\* digits d and loading l: it runs when a dependency changed since the last
\* render, and calls handleSubmit when the code is complete and not loading.
effectSubmits(d, l) ==
    /\ ~l
    /\ isComplete(d)
    /\ (l # loading \/ isComplete(d) # isComplete(digits))

\* Commit a handler's updates (d, s, l, f, p) and run the effect; a
\* handleSubmit call sets loading, dismisses the keyboard and suspends at the
\* await with the value of the render it was created in.
Render(d, s, l, f, p) ==
    /\ digits' = d
    /\ selection' = s
    /\ IF effectSubmits(d, l)
       THEN /\ loading' = TRUE
            /\ focused' = FALSE
            /\ pending' = Append(p, value(d))
       ELSE /\ loading' = l
            /\ focused' = f
            /\ pending' = p

Init ==
    /\ digits = EmptyDigits
    /\ selection = Sel(0, 0)
    /\ loading = FALSE
    /\ focused = FALSE
    /\ pending = <<>>
    /\ refocusPending = FALSE
    /\ alertOut = NoAlert

\* onSelectionChange of the hidden input
handleSelectionChange(rawStart, rawEnd) ==
    /\ IF loading
       THEN Render(digits, selection, loading, focused, pending)
       ELSE Render(digits, Sel(clamp(rawStart), clamp(rawEnd)), loading, focused, pending)
    /\ alertOut' = NoAlert
    /\ UNCHANGED refocusPending

\* storeClean with the caret advanced past the last box:
\* Math.min(selection.start + 1, OTP_LENGTH).
storeCleanPastEnd(clean) ==
    IF ~loading /\ clean # <<>> /\ selection.start < OTP_LENGTH
    THEN LET nextPos == Min(selection.start + 1, OTP_LENGTH)
         IN  Render(setAt(digits, selection.start, clean),
                    Sel(nextPos, nextPos), loading, focused, pending)
    ELSE Render(digits, selection, loading, focused, pending)

\* What handleChangeText does with the sanitized text `clean`: nothing while
\* loading, else the write and the caret move of its if block.
storeClean(clean) ==
    IF ~loading /\ clean # <<>> /\ selection.start < OTP_LENGTH
    THEN LET nextPos == Min(selection.start + 1, OTP_LENGTH - 1)
         IN  Render(setAt(digits, selection.start, clean),
                    Sel(nextPos, nextPos), loading, focused, pending)
    ELSE Render(digits, selection, loading, focused, pending)

\* onChangeText of the hidden input
handleChangeText(nextText) ==
    /\ storeClean(sanitize(nextText))
    /\ alertOut' = NoAlert
    /\ UNCHANGED refocusPending

\* handleKeyPress without `if (loading) return`.
handleKeyPressUnguarded(key) ==
    /\ IF key = "Backspace"
          /\ selection.start >= 0 /\ selection.start < OTP_LENGTH
       THEN Render(clearAt(digits, selection.start), selection,
                   loading, focused, pending)
       ELSE Render(digits, selection, loading, focused, pending)
    /\ alertOut' = NoAlert
    /\ UNCHANGED refocusPending

\* onKeyPress of the hidden input
handleKeyPress(key) ==
    /\ IF ~loading /\ key = "Backspace"
          /\ selection.start >= 0 /\ selection.start < OTP_LENGTH
       THEN Render(clearAt(digits, selection.start), selection,
                   loading, focused, pending)
       ELSE Render(digits, selection, loading, focused, pending)
    /\ alertOut' = NoAlert
    /\ UNCHANGED refocusPending

\* onPress of box `index`
handleBoxPress(index) ==
    /\ IF loading
       THEN Render(digits, selection, loading, focused, pending)
       ELSE Render(digits, focusSelection(digits, index, TRUE), loading, TRUE, pending)
    /\ alertOut' = NoAlert
    /\ UNCHANGED refocusPending

\* The row press focusing at the end of the selection: focusInput(selection.end).
RowPressAtEnd ==
    /\ Render(digits, focusSelection(digits, selection.end, FALSE),
              loading, TRUE, pending)
    /\ alertOut' = NoAlert
    /\ UNCHANGED refocusPending

\* onPress of the row: focusInput(selection.start)
RowPress ==
    /\ Render(digits, focusSelection(digits, selection.start, FALSE),
              loading, TRUE, pending)
    /\ alertOut' = NoAlert
    /\ UNCHANGED refocusPending

\* The submit button left rendered and enabled while loading.
SubmitPressWhileLoading ==
    /\ ~isComplete(digits)
    /\ Render(digits, selection, TRUE, FALSE, Append(pending, value(digits)))
    /\ alertOut' = NoAlert
    /\ UNCHANGED refocusPending

\* onPress of the submit button, rendered when not loading and enabled when
\* the code is not complete: handleSubmit up to its await.
SubmitPress ==
    /\ ~loading
    /\ ~(isComplete(digits) \/ loading)
    /\ Render(digits, selection, TRUE, FALSE, Append(pending, value(digits)))
    /\ alertOut' = NoAlert
    /\ UNCHANGED refocusPending

\* The try block without setSelection({ start: 0, end: 0 }).
handleSubmitSettleNoCaretReset(ok, code) ==
    IF ok
    THEN [digits |-> EmptyDigits, selection |-> selection,
          alert |-> [kind |-> "success", code |-> code]]
    ELSE [digits |-> digits, selection |-> selection,
          alert |-> [kind |-> "failure", code |-> <<>>]]

\* What the try/catch of handleSubmit does after the await, for the call
\* that captured `code`: the updates and the alert.
handleSubmitSettle(ok, code) ==
    IF ok
    THEN [digits |-> EmptyDigits, selection |-> Sel(0, 0),
          alert |-> [kind |-> "success", code |-> code]]
    ELSE [digits |-> digits, selection |-> selection,
          alert |-> [kind |-> "failure", code |-> <<>>]]

\* The 1500 ms timer of the oldest suspended handleSubmit fires; the rest of
\* the function runs: try or catch, then finally.  A 50 ms callback scheduled
\* by an earlier call has always fired by then.
SubmitTimer(ok) ==
    /\ pending # <<>>
    /\ ~refocusPending
    /\ LET r == handleSubmitSettle(ok, Head(pending))
       IN  /\ Render(r.digits, r.selection, FALSE, focused, Tail(pending))
           /\ alertOut' = r.alert
    /\ refocusPending' = TRUE

\* The 50 ms callback of the finally block
RefocusTimer ==
    /\ refocusPending
    /\ refocusPending' = FALSE
    /\ Render(digits, Sel(0, 0), loading, TRUE, pending)
    /\ alertOut' = NoAlert

Next ==
    \/ \E rs \in RawPositions, w \in RawWidths : handleSelectionChange(rs, rs + w)
    \/ \E raw \in RawTexts : handleChangeText(raw)
    \/ \E key \in Keys : handleKeyPress(key)
    \/ \E i \in Index : handleBoxPress(i)
    \/ RowPress
    \/ SubmitPress
    \/ \E ok \in BOOLEAN : SubmitTimer(ok)
    \/ RefocusTimer

Spec == Init /\ [][Next]_vars

\* The behaviours in which no submission throws: the awaited promise of
\* handleSubmit only ever resolves.
NextNoFailure ==
    \/ \E rs \in RawPositions, w \in RawWidths : handleSelectionChange(rs, rs + w)
    \/ \E raw \in RawTexts : handleChangeText(raw)
    \/ \E key \in Keys : handleKeyPress(key)
    \/ \E i \in Index : handleBoxPress(i)
    \/ RowPress
    \/ SubmitPress
    \/ SubmitTimer(TRUE)
    \/ RefocusTimer

SpecNoFailure == Init /\ [][NextNoFailure]_vars

\* Timers that are due fire: the 1500 ms timer of a suspended handleSubmit
\* and the 50 ms callback.
FairSpec ==
    /\ Spec
    /\ WF_vars(\E ok \in BOOLEAN : SubmitTimer(ok))
    /\ WF_vars(RefocusTimer)

\* ------------------------------------------------------------------ claims
IsSlot(x) == x = <<>> \/ (Len(x) = 1 /\ x[1] \in Digit)
\* The raw texts of one typed digit.
DigitTexts == {<<c>> : c \in {x \in InputChars : IsDigit(x)}}
OthersKept(i) == \A j \in Index : j # i => digits'[j] = digits[j]

\* C1: in every reachable state the code buffer has exactly OTP_LENGTH slots
\* and each slot is the empty string or one digit character.
C1_BufferShape ==
    /\ DOMAIN digits = Index
    /\ Cardinality(DOMAIN digits) = OTP_LENGTH
    /\ \A i \in Index : IsSlot(digits[i])
\* Slots written out of order, one left empty between two digits.
C1_Witness ==
    /\ digits[0] = <<"1">> /\ digits[1] = <<>> /\ digits[5] = <<"2">>

\* C2: no state has the status Idle with all six slots filled: filling the
\* last slot enters Submitting in the same update, with no manual submit.
C2_AutoSubmit == isComplete(digits) => (loading /\ pending # <<>>)
C2_Witness == isComplete(digits) /\ loading /\ pending = <<value(digits)>>

\* C3: right after a submission resolved with success the status is Idle,
\* all slots are "" and the selection is (0, 0).
C3_SuccessResets ==
    alertOut.kind = "success" =>
        (~loading /\ digits = EmptyDigits /\ selection = Sel(0, 0))
C3_Witness ==
    /\ alertOut.kind = "success" /\ Len(alertOut.code) = OTP_LENGTH
    /\ ~loading /\ digits = EmptyDigits /\ selection = Sel(0, 0)

\* C4: when the submission of a complete code resolves with failure, the
\* failure alert is shown and the cleanup is that of success: the status
\* returns to Idle with all slots "" and the selection (0, 0).
C4_FailureResets ==
    [][(loading /\ isComplete(digits) /\ alertOut'.kind = "failure") =>
          (~loading' /\ digits' = EmptyDigits /\ selection' = Sel(0, 0))
      ]_vars

\* C5: while Submitting, a text change, a key press and a selection change
\* leave the buffer and the selection as they are; the buffer changes only
\* in the step that resolves the submission with success, so it is still
\* the buffer whose value the suspended handleSubmit captured.
C5_LockedWhileSubmitting ==
    /\ [][(loading /\ <<digits, selection>>' # <<digits, selection>>) =>
            /\ \A raw \in RawTexts : ~handleChangeText(raw)
            /\ \A key \in Keys : ~handleKeyPress(key)
            /\ \A rs \in RawPositions, w \in RawWidths :
                  ~handleSelectionChange(rs, rs + w)
         ]_vars
    /\ [][(loading /\ digits' # digits) => alertOut'.kind = "success"]_vars
    /\ [](loading => pending = <<value(digits)>>)
\* A submission in flight for a code that is complete.
C5_Witness == loading /\ isComplete(digits) /\ pending = <<value(digits)>> /\ ~focused

\* C6: in Idle, a text change with one digit at selection.start = i < 6 puts
\* that digit in slot i and leaves every other slot as it was.
C6_InsertNoShift ==
    [][(~loading /\ selection.start \in Index) =>
          \A raw \in DigitTexts :
              handleChangeText(raw) =>
                  (digits'[selection.start] = raw /\ OthersKept(selection.start))
      ]_vars
\* Digits at slots 0 and 2 around an empty slot 1, then one more at slot 4.
C6_Witness ==
    /\ ~loading
    /\ digits = [i \in Index |-> IF i = 0 THEN <<"1">>
                                 ELSE IF i \in {2, 4} THEN <<"2">> ELSE <<>>]
    /\ selection = Sel(5, 5)

\* C7: in Idle, Backspace with selection.start = i < 6 empties slot i, keeps
\* every other slot and keeps the selection; with selection.start = 6 it
\* changes neither.
C7_BackspaceClearsOneSlot ==
    [][(~loading /\ handleKeyPress("Backspace")) =>
          /\ selection' = selection
          /\ IF selection.start \in Index
             THEN digits'[selection.start] = <<>> /\ OthersKept(selection.start)
             ELSE digits' = digits
      ]_vars
\* Slot 1 empty under the caret, between two filled slots.
C7_Witness ==
    /\ ~loading /\ selection = Sel(1, 1)
    /\ digits[0] # <<>> /\ digits[1] = <<>> /\ digits[2] # <<>>

\* C8: in Idle, a tap on box i selects (i, i+1) when slot i is filled and
\* sets the caret (i, i) when it is empty; with a filled slot selected, the
\* next typed digit replaces that slot and no other.
C8_TapSelectsForOverwrite ==
    /\ [][\A i \in Index :
            (~loading /\ handleBoxPress(i)) =>
                selection' = IF digits[i] # <<>> THEN Sel(i, i + 1) ELSE Sel(i, i)
         ]_vars
    /\ [][(~loading /\ selection.start \in Index
              /\ selection.end = selection.start + 1
              /\ digits[selection.start] # <<>>) =>
            \A raw \in DigitTexts :
                handleChangeText(raw) =>
                    (digits'[selection.start] = raw /\ OthersKept(selection.start))
         ]_vars
\* A filled box tapped: it is selected and the input holds focus.
C8_Witness ==
    /\ ~loading /\ focused /\ selection = Sel(1, 2)
    /\ digits[1] = <<"2">> /\ digits[2] # <<>>

\* C9: when the success alert is shown the boxes still hold the submitted
\* code; the buffer is cleared by a later step.
C9_SuccessShownBeforeClear ==
    alertOut.kind = "success" => value(digits) = alertOut.code

\* C10: in every reachable state 0 <= start <= end <= OTP_LENGTH.
C10_SelectionOrdered ==
    /\ 0 <= selection.start
    /\ selection.start <= selection.end
    /\ selection.end <= OTP_LENGTH

\* C11: while a complete code is Submitting, a box tap and a row tap neither
\* request focus on the hidden input nor change the selection.
C11_FocusLockedWhileSubmitting ==
    [][(loading /\ isComplete(digits)
          /\ <<selection, focused>>' # <<selection, focused>>) =>
          (~RowPress /\ \A i \in Index : ~handleBoxPress(i))
      ]_vars

\* C12 as stated, for an overwrite selection: a row tap with a filled slot i
\* selected as (i, i+1) leaves the selection and the buffer as they were.
C12_RowTapKeepsSelection ==
    [][(RowPress /\ selection.start \in Index
          /\ selection.end = selection.start + 1
          /\ digits[selection.start] # <<>>)
       => UNCHANGED <<selection, digits>>]_vars
\* C12 as amended: a row tap focuses the hidden input, leaves the buffer and
\* selection.start as they were and sets selection.end to selection.start,
\* so a caret stays and an overwrite selection (i, i+1) collapses to (i, i).
C12_RowTapKeepsCaret ==
    [][RowPress =>
          /\ digits' = digits
          /\ selection'.start = selection.start
          /\ selection'.end = selection.start
          /\ focused'
      ]_vars
\* Focus and a caret off (0, 0) during Submitting: only a row tap gives both.
C12_Witness ==
    loading /\ focused /\ selection = Sel(2, 2) /\ digits[2] # <<>>

\* C13: a submission outcome is terminal: the step that resolves a
\* submission, with success or failure, leaves the status Idle with no
\* submission in flight, so the same code is not submitted again.
C13_OutcomeTerminal ==
    [][alertOut'.kind # "none" => (~loading' /\ pending' = <<>>)]_vars

\* The texts sanitize returns for the raw texts: "" and each typed digit.
CleanTexts == {<<>>} \cup DigitTexts
HasDigit(raw) == \E k \in 1..Len(raw) : IsDigit(raw[k])
FirstDigit(raw) ==
    raw[CHOOSE k \in 1..Len(raw) :
            IsDigit(raw[k]) /\ \A j \in 1..(k - 1) : ~IsDigit(raw[j])]

\* C14: in Idle, a text change whose raw text holds no digit leaves every
\* slot and the selection as they were; a raw text that holds a digit writes
\* its first digit character, and nothing else of it, to slot
\* selection.start and keeps the other slots.
\* handleChangeText(raw) is storeClean(sanitize(raw)), so the claim is
\* checked in two parts: what sanitize returns for every raw text, and what
\* the handler does with each text sanitize can return.
C14_SanitizedTextChange ==
    /\ [](\A raw \in RawTexts :
            sanitize(raw) = IF HasDigit(raw) THEN <<FirstDigit(raw)>> ELSE <<>>)
    /\ [][~loading =>
            \A clean \in CleanTexts :
                storeClean(clean) =>
                    IF clean = <<>>
                    THEN UNCHANGED <<digits, selection>>
                    ELSE selection.start \in Index =>
                            /\ digits'[selection.start] = clean
                            /\ OthersKept(selection.start)
         ]_vars
\* Idle with digits in the buffer and the caret past a written slot.
C14_Witness ==
    /\ ~loading /\ selection = Sel(4, 4)
    /\ digits[3] = <<"2">> /\ digits[0] = <<"1">> /\ digits[1] = <<>>

\* C15: in Idle, a text change with a digit at selection.start = s < 6 leaves
\* the selection collapsed at min(s + 1, 5), whatever the selection's end was;
\* at selection.start = 6 it changes neither the buffer nor the selection.
C15_CaretAfterDigit ==
    [][~loading =>
          \A raw \in DigitTexts :
              handleChangeText(raw) =>
                  IF selection.start < OTP_LENGTH
                  THEN /\ selection'.start = Min(selection.start + 1, OTP_LENGTH - 1)
                       /\ selection'.end = selection'.start
                  ELSE UNCHANGED <<digits, selection>>
      ]_vars
\* A digit typed into the last box with the box before it empty: the caret
\* stays on the last box.
C15_Witness ==
    /\ ~loading /\ selection = Sel(5, 5)
    /\ digits[5] # <<>> /\ digits[4] = <<>>

\* C16: Submitting is entered only with all six slots filled, and every
\* suspended submission captured a code of exactly six characters.
C16_SubmitsCompleteCode ==
    /\ loading => isComplete(digits)
    /\ \A k \in 1..Len(pending) : Len(pending[k]) = OTP_LENGTH

\* C17: the 50 ms callback leaves the selection as it is when it fires after
\* the user typed a digit in the new Idle period or after a new submission
\* started.
C17_RefocusKeepsUserCaret ==
    [][(RefocusTimer /\ (digits # EmptyDigits \/ loading)) =>
          selection' = selection]_vars

\* C18: at most one handleSubmit is suspended at any time, and one is
\* suspended exactly while the status is Submitting.
C18_OneInFlight ==
    /\ Len(pending) <= 1
    /\ loading <=> pending # <<>>
\* A submission in flight while the 50 ms callback of the one before it is
\* still scheduled.
C18_Witness == loading /\ Len(pending) = 1 /\ refocusPending

\* C19: from every state with the status Submitting the status eventually
\* returns to Idle, provided the timers fire.
C19_SubmittingEnds == loading ~> ~loading

====
